---- MODULE Spec2Model ----
(***************************************************************************)
(* compact-ts (src/main.rs): a command-line utility that prints a compact  *)
(* timestamp YY-DOY-BASEMIN (generate) and expands such a token found in   *)
(* arbitrary text back to a rendered local date-time (expand).             *)
(*                                                                         *)
(* A string is a sequence of characters; a character is a one-character    *)
(* TLA+ string, except NdChar, which stands for one non-ASCII Unicode      *)
(* decimal digit (general category Nd, e.g. ARABIC-INDIC DIGIT THREE).     *)
(***************************************************************************)
EXTENDS Integers, Sequences, FiniteSets, TLC

VARIABLES
    zone,       \* the host's local time zone rules (read by chrono's Local)
    op,         \* the operation that ran last
    args,       \* its arguments
    ret,        \* what it returned
    stdout,     \* the lines the last run wrote to standard output
    stderr,     \* the error the last run reported on standard error
    exit_code,  \* the process exit code of the last run
    last_gen    \* the source time and base of the generate run whose output
                \* line is the input of the current expand run (a pipe)

vars == <<zone, op, args, ret, stdout, stderr, exit_code, last_gen>>

----------------------------------------------------------------------------
(* Characters and digits                                                   *)

\* to_base_n's digit alphabet (const CHARSET).
CHARSET ==
    << "0", "1", "2", "3", "4", "5", "6", "7", "8", "9",
       "A", "B", "C", "D", "E", "F", "G", "H", "I", "J", "K", "L", "M",
       "N", "O", "P", "Q", "R", "S", "T", "U", "V", "W", "X", "Y", "Z" >>

\* The lower-case letters, in the order of CHARSET's letters.
LowerCase ==
    << "a", "b", "c", "d", "e", "f", "g", "h", "i", "j", "k", "l", "m",
       "n", "o", "p", "q", "r", "s", "t", "u", "v", "w", "x", "y", "z" >>

\* A decimal digit that is not ASCII: the regex class \d holds it, the
\* integer parsers of the standard library do not.
NdChar == "U+0663"

\* The position of c in seq, 0 when absent.
IndexOf(seq, c) ==
    IF \E i \in 1..Len(seq) : seq[i] = c
    THEN CHOOSE i \in 1..Len(seq) : seq[i] = c
    ELSE 0

AsciiDigits == { CHARSET[i] : i \in 1..10 }

\* char::to_digit(radix): the digit's value, -1 when c is no digit of radix.
\* 0-9, then a-z and A-Z alike for 10..35.
to_digit(c, radix) ==
    LET u == IndexOf(CHARSET, c)
        l == IndexOf(LowerCase, c)
        v == IF u > 0 THEN u - 1 ELSE IF l > 0 THEN l + 9 ELSE -1
    IN  IF v >= 0 /\ v < radix THEN v ELSE -1

Reverse(s) == [ i \in 1..Len(s) |-> s[Len(s) + 1 - i] ]

\* u32 arithmetic is carried out on two 16-bit limbs (hi, lo), value
\* hi * Limb + lo, so that the overflow check of a u32 is exact.
Limb == 65536

\* Success and failure of a Result, in one record shape.
Ok(v) == [ ok |-> TRUE, val |-> v, kind |-> "None", text |-> <<>>, num |-> 0 ]
Err(k, t, n) == [ ok |-> FALSE, val |-> 0, kind |-> k, text |-> t, num |-> n ]

----------------------------------------------------------------------------
(* The base-N codec                                                        *)

\* The while loop of to_base_n: digits least significant first.
RECURSIVE to_base_n_loop(_, _, _)
to_base_n_loop(n, base, result) ==
    IF n > 0
    THEN to_base_n_loop(n \div base, base, Append(result, CHARSET[(n % base) + 1]))
    ELSE result

\* to_base_n with the final reversal forgotten.
to_base_n_unreversed(n, base) ==
    IF n = 0 THEN << "0" >> ELSE to_base_n_loop(n, base, <<>>)

\* to_base_n(n, base), for a base in 2..36 (any other base panics; the
\* handlers pass 12 or 36).
to_base_n(n, base) ==
    IF n = 0 THEN << "0" >> ELSE Reverse(to_base_n_loop(n, base, <<>>))

\* The digit loop of u32::from_str_radix (checked multiply, then checked
\* add): -1 on a character that is no digit of the radix, -2 when the value
\* leaves u32.  The accumulator is the pair of limbs (hi, lo).
RECURSIVE radix_loop(_, _, _, _, _)
radix_loop(digits, radix, i, hi, lo) ==
    IF i > Len(digits) THEN hi * Limb + lo
    ELSE LET d == to_digit(digits[i], radix)
             l == lo * radix + d
             h == hi * radix + (l \div Limb)
         IN  IF d < 0 THEN -1
             ELSE IF h >= Limb THEN -2
             ELSE radix_loop(digits, radix, i + 1, h, l % Limb)

\* u32::from_str_radix(s, radix): the empty string is an error, a lone sign
\* is an error, one leading '+' is skipped, '-' is no sign of an unsigned
\* type and so an invalid digit.  The result is the value, or a negative
\* number for an error.
from_str_radix(s, radix) ==
    IF Len(s) = 0 THEN -3
    ELSE IF Len(s) = 1 /\ s[1] \in { "+", "-" } THEN -1
    ELSE IF s[1] = "+" THEN radix_loop(SubSeq(s, 2, Len(s)), radix, 1, 0, 0)
    ELSE radix_loop(s, radix, 1, 0, 0)

\* from_base_n(s, base): every error of from_str_radix becomes the one
\* "Invalid digit found in '{s}' for base {base}" message.
from_base_n(s, base) ==
    LET v == from_str_radix(s, base)
    IN  IF v >= 0 THEN Ok(v) ELSE Err("InvalidDigit", s, base)

----------------------------------------------------------------------------
(* Calendar dates and times, as chrono holds them: a NaiveDate is a year    *)
(* and an ordinal (day of year), a NaiveDateTime adds the time of day.      *)

MinutesPerDay == 1440

IsLeap(y) == (y % 4 = 0 /\ y % 100 # 0) \/ y % 400 = 0

DaysInYear(y) == IF IsLeap(y) THEN 366 ELSE 365

DaysInMonth(y, m) ==
    IF m = 2 THEN (IF IsLeap(y) THEN 29 ELSE 28)
    ELSE IF m \in { 4, 6, 9, 11 } THEN 30 ELSE 31

\* The days of year y before month m.
RECURSIVE DaysBefore(_, _)
DaysBefore(y, m) == IF m <= 1 THEN 0 ELSE DaysBefore(y, m - 1) + DaysInMonth(y, m - 1)

\* NaiveDate::from_ymd_opt: the ordinal of y-m-d, 0 (None) for no such date.
from_ymd_opt(y, m, d) ==
    IF m \in 1..12 /\ d >= 1 /\ d <= DaysInMonth(y, m) THEN DaysBefore(y, m) + d ELSE 0

\* NaiveDate::from_yo_opt: TRUE (Some) iff year y has a day number doy.
from_yo_opt(y, doy) == doy >= 1 /\ doy <= DaysInYear(y)

\* Datelike::month and Datelike::day of the date (y, ordinal).
month(y, ordinal) == CHOOSE m \in 1..12 : DaysBefore(y, m) < ordinal /\ ordinal <= DaysBefore(y, m) + DaysInMonth(y, m)
day(y, ordinal) == ordinal - DaysBefore(y, month(y, ordinal))

\* A date-time value: the local (or UTC) calendar fields.
DateTime(y, o, h, mi, sec) == [ year |-> y, ordinal |-> o, hour |-> h, minute |-> mi, second |-> sec ]

\* The minute of the day and of the year of a date-time.
MinuteOfDay(dt) == dt.hour * 60 + dt.minute
MinuteOfYear(dt) == (dt.ordinal - 1) * MinutesPerDay + MinuteOfDay(dt)

\* dt moved by delta minutes (|delta| below one day), over day and year ends.
AddMinutes(dt, delta) ==
    LET m == MinuteOfDay(dt) + delta
        dd == IF m < 0 THEN -1 ELSE IF m >= MinutesPerDay THEN 1 ELSE 0
        mm == m - dd * MinutesPerDay
        o == dt.ordinal + dd
        y == IF o < 1 THEN dt.year - 1 ELSE IF o > DaysInYear(dt.year) THEN dt.year + 1 ELSE dt.year
        oo == IF o < 1 THEN DaysInYear(dt.year - 1) ELSE IF o > DaysInYear(dt.year) THEN 1 ELSE o
    IN  DateTime(y, oo, mm \div 60, mm % 60, dt.second)

----------------------------------------------------------------------------
(* The local time zone (chrono's Local): a standard offset from UTC and,    *)
(* with dst, one hour of daylight time between two instants of each year.   *)
(* Clocks go forward at dst_start (an hour of local time does not exist)    *)
(* and back at dst_end (an hour of local time happens twice).               *)

\* UTC all year.
ZoneUTC == [ name |-> "UTC", std |-> 0, dst |-> FALSE, dst_start |-> 0, dst_end |-> 0 ]

\* One hour east, daylight time from day 89 01:00 UTC to day 299 01:00 UTC
\* (Europe/Paris in 2025: March 30 and October 26).
ZoneDST ==
    [ name |-> "DST", std |-> 60, dst |-> TRUE,
      dst_start |-> 88 * MinutesPerDay + 60, dst_end |-> 298 * MinutesPerDay + 60 ]

Zones == { ZoneUTC, ZoneDST }

\* The zone's offset from UTC, in minutes, at the UTC date-time u.
OffsetAt(z, u) ==
    IF z.dst /\ z.dst_start <= MinuteOfYear(u) /\ MinuteOfYear(u) < z.dst_end
    THEN z.std + 60 ELSE z.std

\* DateTime::with_timezone(&Local) of the instant whose UTC fields are u.
with_timezone_local(z, u) == AddMinutes(u, OffsetAt(z, u))

\* Local.from_local_datetime(ndt): "None" in the skipped hour, "Ambiguous"
\* in the repeated hour, "Single" otherwise.
from_local_datetime(z, ndt) ==
    LET l == MinuteOfYear(ndt)
    IN  IF z.dst /\ z.dst_start + z.std <= l /\ l < z.dst_start + z.std + 60 THEN "None"
        ELSE IF z.dst /\ z.dst_end + z.std <= l /\ l < z.dst_end + z.std + 60 THEN "Ambiguous"
        ELSE "Single"

\* LocalResult::single().ok_or("Ambiguous local time"): the local date-time.
to_local(z, ndt) ==
    IF from_local_datetime(z, ndt) = "Single" THEN Ok(ndt) ELSE Err("AmbiguousLocalTime", <<>>, 0)

----------------------------------------------------------------------------
(* The flexible timestamp parser.  A --from string is held by its layout    *)
(* (which of the eleven formats its punctuation fits, 0 for none) and the   *)
(* numbers written in it; off is the written UTC offset in minutes.         *)

FromNone ==
    [ given |-> FALSE, layout |-> 0, y |-> 0, mo |-> 0, d |-> 0, h |-> 0, mi |-> 0, s |-> 0, off |-> 0 ]

FromStr(l, y, mo, d, h, mi, sec, off) ==
    [ given |-> TRUE, layout |-> l, y |-> y, mo |-> mo, d |-> d, h |-> h, mi |-> mi, s |-> sec, off |-> off ]

\* The written date and time exist (chrono reads second 60 as a leap
\* second, kept as second 59).
fields_ok(f) == from_ymd_opt(f.y, f.mo, f.d) > 0 /\ f.h \in 0..23 /\ f.mi \in 0..59 /\ f.s \in 0..60

\* The NaiveDateTime written in f.
naive_of(f) ==
    DateTime(f.y, from_ymd_opt(f.y, f.mo, f.d), f.h, f.mi, IF f.s = 60 THEN 59 ELSE f.s)

\* parse_flexible_timestamp: the eleven attempts, in order.
parse_flexible_timestamp(z, f) ==
    \* 1-3: date-time with an offset; 4: compact, literal Z (UTC)
    IF f.layout \in { 1, 2, 3 } /\ fields_ok(f)
    THEN Ok(with_timezone_local(z, AddMinutes(naive_of(f), 0 - f.off)))
    ELSE IF f.layout = 4 /\ fields_ok(f)
    THEN Ok(with_timezone_local(z, naive_of(f)))
    \* 5-9: naive date-time, read in the local zone
    ELSE IF f.layout \in 5..9 /\ fields_ok(f)
    THEN to_local(z, naive_of(f))
    \* 10-11: date only, midnight
    ELSE IF f.layout \in { 10, 11 } /\ from_ymd_opt(f.y, f.mo, f.d) > 0
    THEN to_local(z, DateTime(f.y, from_ymd_opt(f.y, f.mo, f.d), 0, 0, 0))
    ELSE Err("ParseFailure", <<>>, 0)

----------------------------------------------------------------------------
(* Number formatting                                                        *)

\* The decimal digits of n >= 0.
RECURSIVE Decimal(_)
Decimal(n) == IF n < 10 THEN << CHARSET[n + 1] >> ELSE Append(Decimal(n \div 10), CHARSET[(n % 10) + 1])

\* {:c>width}: s padded on the left with c to at least width characters.
RECURSIVE PadLeft(_, _, _)
PadLeft(s, width, c) == IF Len(s) >= width THEN s ELSE PadLeft(<< c >> \o s, width, c)

----------------------------------------------------------------------------
(* What a handler did: the lines it printed and how it ended ("ok", "err"   *)
(* with the error, or "panic"); dt is the date-time it worked on.           *)

NoTime == DateTime(0, 0, 0, 0, 0)

Success(lines, dt) == [ status |-> "ok", out |-> lines, err |-> Ok(0), dt |-> dt ]
Failure(e) == [ status |-> "err", out |-> <<>>, err |-> e, dt |-> NoTime ]
Panic == [ status |-> "panic", out |-> <<>>, err |-> Ok(0), dt |-> NoTime ]

\* Base::B12 => 12, Base::B36 => 36.
base_num(base) == IF base = "B12" THEN 12 ELSE 36

\* generate_line with the padding of the minutes field forgotten.
generate_line_unpadded(dt, base) ==
    LET yy == PadLeft(Decimal(dt.year % 100), 2, "0")
        doy == PadLeft(Decimal(dt.ordinal), 3, "0")
        minutes_since_midnight == (dt.hour * 3600 + dt.minute * 60 + dt.second) \div 60
    IN  yy \o << "-" >> \o doy \o << "-" >> \o to_base_n(minutes_since_midnight, base_num(base))

\* generate_line with the seconds rounded to the nearest minute instead of
\* discarded.
generate_line_rounded(dt, base) ==
    LET yy == PadLeft(Decimal(dt.year % 100), 2, "0")
        doy == PadLeft(Decimal(dt.ordinal), 3, "0")
        minutes_since_midnight == (dt.hour * 3600 + dt.minute * 60 + dt.second + 30) \div 60
    IN  yy \o << "-" >> \o doy \o << "-" >>
           \o PadLeft(to_base_n(minutes_since_midnight, base_num(base)), 3, "0")

\* The line generate prints for the source date-time dt.
generate_line(dt, base) ==
    LET yy == PadLeft(Decimal(dt.year % 100), 2, "0")
        doy == PadLeft(Decimal(dt.ordinal), 3, "0")
        minutes_since_midnight == (dt.hour * 3600 + dt.minute * 60 + dt.second) \div 60
        base_min_str == to_base_n(minutes_since_midnight, base_num(base))
    IN  yy \o << "-" >> \o doy \o << "-" >> \o PadLeft(base_min_str, 3, "0")

\* handle_generate_command; now is the reading of the clock (UTC fields).
handle_generate_command(z, a, now) ==
    LET source_dt == IF a.from.given THEN parse_flexible_timestamp(z, a.from)
                     ELSE Ok(with_timezone_local(z, now))
    IN  IF ~source_dt.ok THEN Failure(source_dt)
        ELSE Success(<< generate_line(source_dt.val, a.base) >>, source_dt.val)

----------------------------------------------------------------------------
(* Format templates (chrono's strftime syntax).  The templates of this      *)
(* model are written with the characters % Y m d H M S T s f - . 3 : and    *)
(* the letter T as literal text; the syntax below is chrono's for those.    *)

\* "%Y-%m-%dT%H:%M", the default of --format.
DefaultFormat ==
    << "%", "Y", "-", "%", "m", "-", "%", "d", "T", "%", "H", ":", "%", "M" >>

\* s holds pat as a contiguous substring (str::contains).
contains(s, pat) ==
    \E i \in 1..(Len(s) - Len(pat) + 1) : SubSeq(s, i, i + Len(pat) - 1) = pat

\* validate_format_string: TRUE for Ok(()).
validate_format_string(format) ==
    ~ ( contains(format, << "%", "S" >>)
        \/ contains(format, << "%", "s" >>)
        \/ contains(format, << "%", "f" >>) )

Item(t, c, pad) == [ t |-> t, c |-> c, pad |-> pad ]
ItemError == Item("Error", "", "")

\* The numeric specifiers: the field each letter names.
NumericSpecs == { "Y", "m", "d", "H", "M", "S", "s", "f" }

\* The items of one specifier starting after the '%' at position i - 1, and
\* the position after it: <<items, next>>.
spec_items(f, i) ==
    IF i > Len(f) THEN << << ItemError >>, i >>
    ELSE IF f[i] = "%" THEN << << Item("Literal", "%", "") >>, i + 1 >>
    ELSE IF f[i] \in NumericSpecs THEN << << Item("Numeric", f[i], "Zero") >>, i + 1 >>
    ELSE IF f[i] = "T"
    THEN << << Item("Numeric", "H", "Zero"), Item("Literal", ":", ""),
               Item("Numeric", "M", "Zero"), Item("Literal", ":", ""),
               Item("Numeric", "S", "Zero") >>, i + 1 >>
    ELSE IF f[i] = "-"
    THEN \* a padding override: only before a numeric specifier
         IF i + 1 <= Len(f) /\ f[i + 1] \in NumericSpecs
         THEN << << Item("Numeric", f[i + 1], "None") >>, i + 2 >>
         ELSE << << ItemError >>, i + 1 >>
    ELSE IF f[i] = "."
    THEN IF i + 1 <= Len(f) /\ f[i + 1] = "f"
         THEN << << Item("Fixed", "Nanosecond", "") >>, i + 2 >>
         ELSE IF i + 2 <= Len(f) /\ f[i + 1] = "3" /\ f[i + 2] = "f"
         THEN << << Item("Fixed", "Nanosecond3", "") >>, i + 3 >>
         ELSE << << ItemError >>, i + 1 >>
    ELSE IF f[i] = "3"
    THEN IF i + 1 <= Len(f) /\ f[i + 1] = "f"
         THEN << << Item("Fixed", "Nanosecond3NoDot", "") >>, i + 2 >>
         ELSE << << ItemError >>, i + 1 >>
    ELSE << << ItemError >>, i + 1 >>

\* StrftimeItems::new(f): the items of the template from position i on.
RECURSIVE StrftimeItems(_, _)
StrftimeItems(f, i) ==
    IF i > Len(f) THEN <<>>
    ELSE IF f[i] = "%"
    THEN LET r == spec_items(f, i + 1) IN r[1] \o StrftimeItems(f, r[2])
    ELSE << Item("Literal", f[i], "") >> \o StrftimeItems(f, i + 1)

\* The value and zero-padded width of a numeric field of dt; the Unix
\* timestamp is written as one symbolic character.
numeric_text(dt, c, pad) ==
    LET v == CASE c = "Y" -> dt.year
               [] c = "m" -> month(dt.year, dt.ordinal)
               [] c = "d" -> day(dt.year, dt.ordinal)
               [] c = "H" -> dt.hour
               [] c = "M" -> dt.minute
               [] c = "S" -> dt.second
               [] OTHER -> 0
        w == CASE c = "Y" -> 4 [] c = "f" -> 9 [] OTHER -> 2
    IN  IF c = "s" THEN << "{timestamp}" >>
        ELSE IF pad = "Zero" THEN PadLeft(Decimal(v), w, "0") ELSE Decimal(v)

\* The text of one item for dt, whose nanoseconds are 0.
item_text(dt, it) ==
    CASE it.t = "Literal" -> << it.c >>
      [] it.t = "Numeric" -> numeric_text(dt, it.c, it.pad)
      [] it.t = "Fixed" /\ it.c = "Nanosecond" -> <<>>
      [] it.t = "Fixed" /\ it.c = "Nanosecond3" -> << ".", "0", "0", "0" >>
      [] it.t = "Fixed" /\ it.c = "Nanosecond3NoDot" -> << "0", "0", "0" >>
      [] OTHER -> <<>>

RECURSIVE items_text(_, _, _)
items_text(dt, items, i) ==
    IF i > Len(items) THEN <<>> ELSE item_text(dt, items[i]) \o items_text(dt, items, i + 1)

\* A template chrono cannot render: Display returns an error and println!
\* panics, with nothing written.
format_fails(format) ==
    LET items == StrftimeItems(format, 1) IN \E i \in 1..Len(items) : items[i].t = "Error"

\* local_dt.format(format).to_string()
format_datetime(dt, format) == items_text(dt, StrftimeItems(format, 1), 1)

----------------------------------------------------------------------------
(* The expand handler                                                       *)

\* \d of the regex crate, Unicode-aware for a str pattern: any decimal digit.
re_digit(c) == c \in AsciiDigits \cup { NdChar }

Letters(seq, n) == { seq[i] : i \in 1..n }

\* The third group's class with the class of B36 used for both bases.
re_basemin_class_alnum(base, c) ==
    c \in AsciiDigits \cup Letters(LowerCase, 26) \cup { CHARSET[i] : i \in 11..36 }

\* The third group's class: [0-9A-B] for B12, [0-9A-Za-z] for B36.
re_basemin_class(base, c) ==
    IF base = "B12" THEN c \in AsciiDigits \cup { "A", "B" }
    ELSE c \in AsciiDigits \cup Letters(LowerCase, 26) \cup { CHARSET[i] : i \in 11..36 }

\* The pattern (\d{2})-(\d{3})-(class{3}) matches s at position i.
re_match_at(s, i, base) ==
    /\ i + 9 <= Len(s)
    /\ re_digit(s[i]) /\ re_digit(s[i + 1])
    /\ s[i + 2] = "-"
    /\ re_digit(s[i + 3]) /\ re_digit(s[i + 4]) /\ re_digit(s[i + 5])
    /\ s[i + 6] = "-"
    /\ re_basemin_class(base, s[i + 7])
    /\ re_basemin_class(base, s[i + 8])
    /\ re_basemin_class(base, s[i + 9])

\* Regex::captures: the start of the leftmost match, 0 for None.
re_captures(s, base) ==
    IF \E i \in 1..Len(s) : re_match_at(s, i, base)
    THEN CHOOSE i \in 1..Len(s) :
            re_match_at(s, i, base) /\ \A j \in 1..(i - 1) : ~re_match_at(s, j, base)
    ELSE 0

\* str::parse::<i32>() and ::<u32>() of a run of \d characters: the value,
\* negative (Err, and unwrap panics) when a character is no ASCII digit.
parse_int(s) == from_str_radix(s, 10)

\* expand_render with the date printed as soon as it is known, before the
\* local time is resolved.
expand_render_early_print(z, format, year, doy, minutes_since_midnight) ==
    IF ~from_yo_opt(year, doy) THEN Failure(Err("InvalidDayOfYear", <<>>, doy))
    ELSE LET naive_dt == DateTime(year, doy, minutes_since_midnight \div 60,
                                  minutes_since_midnight % 60, 0)
             local_dt == to_local(z, naive_dt)
         IN  IF ~local_dt.ok
             THEN [ status |-> "err", out |-> << Decimal(year) >>, err |-> local_dt, dt |-> NoTime ]
             ELSE IF format_fails(format) THEN Panic
             ELSE Success(<< format_datetime(local_dt.val, format) >>, local_dt.val)

\* The end of handle_expand_command, from the date on: the date of
\* (year, doy), the local date-time, the printed line.
expand_render(z, format, year, doy, minutes_since_midnight) ==
    IF ~from_yo_opt(year, doy) THEN Failure(Err("InvalidDayOfYear", <<>>, doy))
    ELSE LET naive_dt == DateTime(year, doy, minutes_since_midnight \div 60,
                                  minutes_since_midnight % 60, 0)
             local_dt == to_local(z, naive_dt)
         IN  IF ~local_dt.ok THEN Failure(local_dt)
             ELSE IF format_fails(format) THEN Panic
             ELSE Success(<< format_datetime(local_dt.val, format) >>, local_dt.val)

\* handle_expand_command
handle_expand_command(z, a) ==
    IF ~validate_format_string(a.format) THEN Failure(Err("InvalidFormatTemplate", <<>>, 0))
    ELSE LET at == re_captures(a.input_string, a.base) IN
    IF at = 0 THEN Failure(Err("NoTokenFound", a.input_string, 0))
    ELSE LET yy_str == SubSeq(a.input_string, at, at + 1)
             doy_str == SubSeq(a.input_string, at + 3, at + 5)
             basemin_str == SubSeq(a.input_string, at + 7, at + 9)
             yy == parse_int(yy_str)
             doy == parse_int(doy_str)
             minutes_since_midnight == from_base_n(basemin_str, base_num(a.base))
         IN  IF yy < 0 \/ doy < 0 THEN Panic
             ELSE IF ~minutes_since_midnight.ok THEN Failure(minutes_since_midnight)
             ELSE IF minutes_since_midnight.val >= MinutesPerDay
             THEN Failure(Err("InvalidMinutes", basemin_str, minutes_since_midnight.val))
             ELSE expand_render(z, a.format, 2000 + yy, doy, minutes_since_midnight.val)

----------------------------------------------------------------------------
(* main: the handler's result becomes the process's output and exit code.   *)

\* Ok: exit 0.  Err(e): "Error: e" on standard error, exit 1.  A panic:
\* the panic message on standard error, exit 101.
exit_of(r) == IF r.status = "ok" THEN 0 ELSE IF r.status = "err" THEN 1 ELSE 101
stderr_of(r) == IF r.status = "ok" THEN "" ELSE IF r.status = "err" THEN r.err.kind ELSE "panic"

----------------------------------------------------------------------------
(* The inputs of the model                                                  *)

\* The longest text before a token in an expand input.
MaxAffix == 1

\* The longest string handed to from_base_n on its own.
MaxStrLen == 3

\* The longest format template handed to validate_format_string on its own.
MaxFmtLen == 3

\* All strings over the characters cs of length at most n.
RECURSIVE StringsUpTo(_, _)
StringsUpTo(cs, n) ==
    IF n = 0 THEN { <<>> }
    ELSE LET shorter == StringsUpTo(cs, n - 1)
         IN  shorter \cup { Append(t, c) : t \in shorter, c \in cs }

Bases == { "B12", "B36" }

\* Dates written in --from strings (the last two do not exist) and read off
\* the clock: year ends, leap days, the days the clocks change.
SampleDates ==
    { << 1999, 12, 31 >>, << 2000, 1, 1 >>, << 2024, 2, 29 >>, << 2024, 12, 31 >>,
      << 2025, 3, 30 >>, << 2025, 6, 30 >>, << 2025, 10, 26 >>, << 2025, 12, 31 >>,
      << 2099, 12, 31 >>, << 2100, 1, 1 >>, << 2025, 2, 29 >>, << 2025, 13, 1 >> }

\* Times of day (the last does not exist; second 60 is a leap second).
SampleTimes ==
    { << 0, 0, 0 >>, << 1, 30, 59 >>, << 2, 30, 0 >>, << 22, 42, 5 >>,
      << 23, 59, 59 >>, << 23, 59, 60 >>, << 24, 0, 0 >> }

\* Written UTC offsets, in minutes: Z, +02:00, -05:00.
SampleOffsets == { 0, 120, -300 }

\* The --from strings: each layout with each date and time it can hold.
FromInputs ==
    { FromStr(1, d[1], d[2], d[3], t[1], t[2], t[3], o) :
        d \in SampleDates, t \in SampleTimes, o \in SampleOffsets }
    \cup { FromStr(l, d[1], d[2], d[3], t[1], t[2], 0, o) :
        l \in { 2, 3 }, d \in SampleDates, t \in SampleTimes, o \in SampleOffsets }
    \cup { FromStr(l, d[1], d[2], d[3], t[1], t[2], t[3], 0) :
        l \in { 4, 5 }, d \in SampleDates, t \in SampleTimes }
    \cup { FromStr(l, d[1], d[2], d[3], t[1], t[2], 0, 0) :
        l \in 6..9, d \in SampleDates, t \in SampleTimes }
    \cup { FromStr(l, d[1], d[2], d[3], 0, 0, 0, 0) : l \in { 10, 11 }, d \in SampleDates }
    \cup { FromStr(0, 0, 0, 0, 0, 0, 0, 0) }

\* What the clock can read (UTC): the sample dates and times that exist,
\* and every minute of 2025-06-30.
ClockReadings ==
    { DateTime(d[1], from_ymd_opt(d[1], d[2], d[3]), t[1], t[2], t[3]) :
        d \in { x \in SampleDates : from_ymd_opt(x[1], x[2], x[3]) > 0 },
        t \in { x \in SampleTimes : x[1] < 24 /\ x[3] < 60 } }
    \cup { DateTime(2025, 181, m \div 60, m % 60, 5) : m \in 0..(MinutesPerDay - 1) }

\* Format templates of expand runs: the default; one with %S; %T, which
\* chrono renders as %H:%M:%S; a lone %, which chrono cannot render.
SampleFormats == { DefaultFormat, << "%", "H", ":", "%", "M", ":", "%", "S" >>, << "%", "T" >>, << "%" >> }

\* Format templates of the expand runs fed by a generate run.
PipedFormats == { DefaultFormat, << "%", "T" >> }

\* The fields of the tokens in expand inputs.
SampleYY == { << "2", "4" >>, << "2", "5" >>, << NdChar, "5" >> }
SampleDOY ==
    { << "0", "0", "0" >>, << "0", "0", "1" >>, << "1", "8", "1" >>, << "2", "9", "9" >>,
      << "3", "6", "6" >>, << "3", NdChar, "6" >> }
SampleMin ==
    { << "0", "0", "0" >>, << "1", "0", "6" >>, << "9", "5", "6" >>, << "9", "B", "B" >>,
      << "A", "0", "0" >>, << "A", "A", "A" >>, << "1", "1", "U" >>, << "1", "3", "Z" >>,
      << "1", "4", "0" >>, << "9", "5", "a" >>, << "1", "1", "u" >>, << "1", "1", "$" >> }

Token(yy, doy, min) == yy \o << "-" >> \o doy \o << "-" >> \o min

\* Texts around a token.
Prefixes == StringsUpTo({ "x", "2" }, MaxAffix)
Suffixes == { <<>>, << ".", "t", "x", "t" >>, << "7" >> }

\* The expand inputs: every token in every surrounding text, texts that
\* miss the shape by one character, and two tokens in one text.
ExpandInputs ==
    { p \o Token(yy, doy, min) \o sfx :
        p \in Prefixes, sfx \in Suffixes, yy \in SampleYY, doy \in SampleDOY, min \in SampleMin }
    \cup { <<>>,
           << "2", "5", "_", "1", "8", "1", "-", "9", "5", "6" >>,
           << "2", "-", "1", "8", "1", "-", "9", "5", "6" >>,
           << "2", "5", "-", "1", "8", "-", "9", "5", "6" >>,
           << "2", "5", "-", "1", "8", "1", "-", "9", "5" >>,
           Token(<< "2", "5" >>, << "1", "8", "1" >>, << "A", "A", "A" >>) \o << " " >>
               \o Token(<< "2", "5" >>, << "1", "8", "1" >>, << "9", "5", "6" >>),
           Token(<< "2", "5" >>, << "1", "8", "1" >>, << "9", "5", "b" >>) \o << " " >>
               \o Token(<< "2", "4" >>, << "3", "6", "6" >>, << "0", "0", "0" >>) }

----------------------------------------------------------------------------
(* The command-line runs.  A behaviour is one invocation of the program    *)
(* from a fresh process, or a generate run whose printed line is handed to  *)
(* an expand run.                                                           *)

NoGen == [ piped |-> FALSE, dt |-> NoTime, base |-> "B12" ]

Init ==
    /\ zone \in Zones
    /\ op = "init"
    /\ args = <<>>
    /\ ret = Success(<<>>, NoTime)
    /\ stdout = <<>>
    /\ stderr = ""
    /\ exit_code = 0
    /\ last_gen = NoGen

\* One run of the program: main calls the handler and reports its result.
Run(name, a, r, gen) ==
    /\ op' = name
    /\ args' = a
    /\ ret' = r
    /\ stdout' = r.out
    /\ stderr' = stderr_of(r)
    /\ exit_code' = exit_of(r)
    /\ last_gen' = gen
    /\ UNCHANGED zone

\* compact-ts generate --base b
GenerateNow ==
    /\ op = "init"
    /\ \E b \in Bases, now \in ClockReadings :
        LET a == [ base |-> b, from |-> FromNone ]
        IN  Run("generate", a, handle_generate_command(zone, a, now), NoGen)

\* compact-ts generate --base b --from f
GenerateFrom ==
    /\ op = "init"
    /\ \E b \in Bases, f \in FromInputs :
        LET a == [ base |-> b, from |-> f ]
        IN  Run("generate", a, handle_generate_command(zone, a, NoTime), NoGen)

\* compact-ts expand input --base b --format fmt
Expand ==
    /\ op = "init"
    /\ \E b \in Bases, fmt \in SampleFormats, input \in ExpandInputs :
        LET a == [ input_string |-> input, base |-> b, format |-> fmt ]
        IN  Run("expand", a, handle_expand_command(zone, a), NoGen)

\* compact-ts expand "$(compact-ts generate ...)" --base b --format fmt:
\* the line the generate run before printed is the input.
ExpandPiped ==
    /\ op = "generate"
    /\ exit_code = 0
    /\ \E b \in Bases, fmt \in PipedFormats :
        LET a == [ input_string |-> stdout[1], base |-> b, format |-> fmt ]
        IN  Run("expand", a, handle_expand_command(zone, a),
                [ piped |-> TRUE, dt |-> ret.dt, base |-> args.base ])

Next == GenerateNow \/ GenerateFrom \/ Expand \/ ExpandPiped

Spec == Init /\ [][Next]_vars

----------------------------------------------------------------------------
(* The codec on its own: to_base_n and from_base_n applied to numbers and   *)
(* strings, and from_base_n applied to what to_base_n returned.             *)

\* The radixes: the two of the program, and 10.
CodecBases == { 10, 12, 36 }

\* The numbers encoded: every minute of the day, and some past it.
CodecNumbers == 0..(MinutesPerDay - 1) \cup { MinutesPerDay, 1570, 46655, 46656 }

\* The strings decoded: all short strings over digits of base 12, of base
\* 36 only, a lower-case letter, the signs and a character of no base; the
\* strings of the tests; seven Z, past u32 in base 36.
CodecStrings ==
    StringsUpTo({ "0", "9", "A", "B", "C", "a", "+", "-", "$" }, MaxStrLen)
    \cup { << "9", "5", "C" >>, << "1", "1", "$" >>, << "y", "o" >>, << "Y", "O" >>,
           << "Z", "Z", "Z", "Z", "Z", "Z", "Z" >> }

InitCodec ==
    /\ zone = ZoneUTC
    /\ op = "init"
    /\ args = <<>>
    /\ ret = Ok(0)
    /\ stdout = <<>>
    /\ stderr = ""
    /\ exit_code = 0
    /\ last_gen = NoGen

\* to_base_n(n, base)
ToBaseN ==
    /\ op = "init"
    /\ \E n \in CodecNumbers, base \in CodecBases :
        /\ op' = "to_base_n"
        /\ args' = [ n |-> n, base |-> base ]
        /\ ret' = Ok(to_base_n(n, base))
    /\ UNCHANGED << zone, stdout, stderr, exit_code, last_gen >>

\* from_base_n(s, base)
FromBaseN ==
    /\ op = "init"
    /\ \E s \in CodecStrings, base \in CodecBases :
        /\ op' = "from_base_n"
        /\ args' = [ s |-> s, base |-> base, encoded |-> FALSE, n |-> 0, enc_base |-> 0 ]
        /\ ret' = from_base_n(s, base)
    /\ UNCHANGED << zone, stdout, stderr, exit_code, last_gen >>

\* from_base_n(to_base_n(n, enc_base), base)
FromBaseNOfEncoded ==
    /\ op = "to_base_n"
    /\ \E base \in CodecBases :
        /\ op' = "from_base_n"
        /\ args' = [ s |-> ret.val, base |-> base, encoded |-> TRUE, n |-> args.n, enc_base |-> args.base ]
        /\ ret' = from_base_n(ret.val, base)
    /\ UNCHANGED << zone, stdout, stderr, exit_code, last_gen >>

NextCodec == ToBaseN \/ FromBaseN \/ FromBaseNOfEncoded

SpecCodec == InitCodec /\ [][NextCodec]_vars

----------------------------------------------------------------------------
(* Format validation on its own: validate_format_string applied to every    *)
(* short template.                                                          *)

FormatInputs ==
    StringsUpTo({ "%", "S", "s", "f", "T", "M", "-", ".", "3" }, MaxFmtLen)
    \cup SampleFormats
    \cup { << "%", ".", "3", "f" >>, << "%", "%", "S", "M" >> }

\* validate_format_string(format)
ValidateFormat ==
    /\ op = "init"
    /\ \E f \in FormatInputs :
        /\ op' = "validate_format_string"
        /\ args' = [ format |-> f ]
        /\ ret' = IF validate_format_string(f) THEN Ok(0) ELSE Err("InvalidFormatTemplate", <<>>, 0)
    /\ UNCHANGED << zone, stdout, stderr, exit_code, last_gen >>

NextFormat == ValidateFormat

SpecFormat == InitCodec /\ [][NextFormat]_vars

----------------------------------------------------------------------------
(* Properties of the codec                                                  *)

\* The digit of value v.
DigitOf(v) == CHARSET[v + 1]

\* c is a digit of radix b, in either case.
IsBaseDigit(c, b) ==
    \E k \in 1..b : CHARSET[k] = c \/ (k > 10 /\ LowerCase[k - 10] = c)

\* The value of digit c: its place in 0-9A-Z, either case.
ValueOfDigit(c) ==
    CHOOSE v \in 0..35 : CHARSET[v + 1] = c \/ (v >= 10 /\ LowerCase[v - 9] = c)

\* The value of the digit string s in radix b, most significant digit first.
RECURSIVE RadixValue(_, _)
RadixValue(s, b) ==
    IF Len(s) = 0 THEN 0
    ELSE RadixValue(SubSeq(s, 1, Len(s) - 1), b) * b + ValueOfDigit(s[Len(s)])

\* C2: decoding what to_base_n returned for a number of minutes n in
\* 0..1439, in the same base 12 or 36, returns Ok(n).
C2_DecodeOfEncode ==
    ( /\ op = "from_base_n"
      /\ args.encoded
      /\ args.base = args.enc_base
      /\ args.base \in { 12, 36 }
      /\ args.n < MinutesPerDay )
    => ret = Ok(args.n)

\* 1362 minutes (22:42) through base 36: "11U" decodes to 1362.
C2_Witness ==
    /\ op = "from_base_n"
    /\ args.encoded
    /\ args.n = 1362
    /\ args.enc_base = 36
    /\ args.base = 36
    /\ args.s = << "1", "1", "U" >>
    /\ ret = Ok(1362)

\* C6: from_base_n(s, base) is the invalid-digit error exactly for the
\* strings s that hold a character which is no digit of the base, and the
\* radix value of s for every other string.  (Stated for the strings the
\* claim is plainly about: not empty, and short enough to fit a u32.)
C6_InvalidDigitExactly ==
    (op = "from_base_n" /\ Len(args.s) \in 1..6) =>
        LET bad == \E i \in 1..Len(args.s) : ~IsBaseDigit(args.s[i], args.base)
        IN  /\ bad => (~ret.ok /\ ret.kind = "InvalidDigit")
            /\ ~bad => ret.ok
            /\ (~bad /\ ret.ok) => ret.val = RadixValue(args.s, args.base)

----------------------------------------------------------------------------
(* Properties of format validation                                          *)

\* The template asks for seconds or for a fraction of a second: one of its
\* items is the second, the Unix timestamp or the nanoseconds.
RequestsSeconds(format) ==
    LET items == StrftimeItems(format, 1)
    IN  \E i \in 1..Len(items) :
            \/ items[i].t = "Fixed"
            \/ items[i].t = "Numeric" /\ items[i].c \in { "S", "s", "f" }

\* The template is literal text and year, month, day, hour and minute
\* placeholders only.
OnlyMinutePrecision(format) ==
    LET items == StrftimeItems(format, 1)
    IN  \A i \in 1..Len(items) :
            \/ items[i].t = "Literal"
            \/ items[i].t = "Numeric" /\ items[i].c \in { "Y", "m", "d", "H", "M" }

\* C4: validate_format_string rejects every template with a seconds or
\* sub-second placeholder and accepts every template of literal text and
\* year, month, day, hour and minute placeholders.
C4_RejectsSecondsOnly ==
    (op = "validate_format_string" /\ ~format_fails(args.format)) =>
        /\ RequestsSeconds(args.format) => ~ret.ok
        /\ OnlyMinutePrecision(args.format) => ret.ok

----------------------------------------------------------------------------
(* Properties of generate                                                   *)

\* The token YY-DOY-MMM of the date-time dt, digit by digit: the year
\* modulo 100 on two digits, the day of the year on three, the minutes
\* since midnight on three digits of the base.
ExpectedToken(dt, b) ==
    LET yy == dt.year % 100
        n == dt.hour * 60 + dt.minute
    IN  << DigitOf(yy \div 10), DigitOf(yy % 10), "-",
           DigitOf(dt.ordinal \div 100), DigitOf((dt.ordinal \div 10) % 10), DigitOf(dt.ordinal % 10), "-",
           DigitOf(n \div (b * b)), DigitOf((n \div b) % b), DigitOf(n % b) >>

\* C3: a generate run that succeeds prints exactly the line YY-DOY-MMM of
\* its source time, the minutes (seconds discarded) on exactly three digits
\* of the base, and the encoding of the minutes is at most 3 characters.
C3_GeneratePrintsToken ==
    (op = "generate" /\ exit_code = 0) =>
        /\ stdout = << ExpectedToken(ret.dt, base_num(args.base)) >>
        /\ Len(stdout[1]) = 10
        /\ Len(to_base_n(ret.dt.hour * 60 + ret.dt.minute, base_num(args.base))) <= 3
        /\ (ret.dt = DateTime(2025, 181, 22, 42, 5) /\ args.base = "B36") =>
              stdout = << << "2", "5", "-", "1", "8", "1", "-", "1", "1", "U" >> >>

\* Local 2025-06-30 22:42:05 in base 12 gives 25-181-956.
C3_Witness ==
    /\ op = "generate"
    /\ exit_code = 0
    /\ args.base = "B12"
    /\ ret.dt = DateTime(2025, 181, 22, 42, 5)
    /\ stdout = << << "2", "5", "-", "1", "8", "1", "-", "9", "5", "6" >> >>

----------------------------------------------------------------------------
(* Properties of expand                                                     *)

\* n on two and on four decimal digits.
TwoDigits(n) == << DigitOf(n \div 10), DigitOf(n % 10) >>
FourDigits(n) == TwoDigits(n \div 100) \o TwoDigits(n % 100)

\* dt truncated to the minute, written YYYY-MM-DDTHH:MM.
ExpectedExpansion(dt) ==
    LET md == CHOOSE x \in (1..12) \X (1..31) : from_ymd_opt(dt.year, x[1], x[2]) = dt.ordinal
    IN  FourDigits(dt.year) \o << "-" >> \o TwoDigits(md[1]) \o << "-" >> \o TwoDigits(md[2])
           \o << "T" >> \o TwoDigits(dt.hour) \o << ":" >> \o TwoDigits(dt.minute)

\* An expand run, default format, on the line a generate run printed for
\* last_gen.dt, in the base of that run.
RoundTripRun ==
    /\ op = "expand"
    /\ last_gen.piped
    /\ args.base = last_gen.base
    /\ args.format = DefaultFormat

\* C1 as stated: for every local time t and both bases, expand (default
\* format, same base) on the token generate prints for t yields t truncated
\* to the minute.
C1_RoundTripEveryTime ==
    RoundTripRun => (exit_code = 0 /\ stdout = << ExpectedExpansion(last_gen.dt) >>)

\* C1 amended: the same for every local time t of the years 2000..2099
\* whose wall-clock minute is the local time of exactly one instant.
C1_RoundTrip ==
    ( /\ RoundTripRun
      /\ last_gen.dt.year \in 2000..2099
      /\ from_local_datetime(zone, last_gen.dt) = "Single" )
    => (exit_code = 0 /\ stdout = << ExpectedExpansion(last_gen.dt) >>)

\* 2025-06-30 22:42:05 through base 36 comes back as 2025-06-30T22:42.
C1_Witness ==
    /\ RoundTripRun
    /\ last_gen.dt = DateTime(2025, 181, 22, 42, 5)
    /\ args.base = "B36"
    /\ args.input_string = << "2", "5", "-", "1", "8", "1", "-", "1", "1", "U" >>
    /\ exit_code = 0
    /\ stdout = << << "2", "0", "2", "5", "-", "0", "6", "-", "3", "0", "T", "2", "2", ":", "4", "2" >> >>

\* A decimal digit, ASCII or not.
IsDecimalDigit(c) == c \in AsciiDigits \cup { NdChar }

\* s holds, from position i, the shape DD-DDD-XXX: D a decimal digit, X a
\* digit of the base in either case.
ShapeAt(s, i, b) ==
    /\ i + 9 <= Len(s)
    /\ \A k \in { 0, 1, 3, 4, 5 } : IsDecimalDigit(s[i + k])
    /\ s[i + 2] = "-" /\ s[i + 6] = "-"
    /\ \A k \in { 7, 8, 9 } : IsBaseDigit(s[i + k], b)

HasShape(s, b) == \E i \in 1..Len(s) : ShapeAt(s, i, b)

\* An expand run that got as far as the token search.
SearchRan == op = "expand" /\ validate_format_string(args.format)

\* An expand run with a valid format template: one that passes validation,
\* that chrono can render and that asks for nothing finer than the minute.
Searched == SearchRan /\ ~format_fails(args.format) /\ ~RequestsSeconds(args.format)

\* C5: expand finds a token in every input that holds the shape DD-DDD-XXX
\* anywhere, X a digit of the base in upper or lower case, and ends with
\* the no-token error exactly when the input holds no such shape.
C5_TokenFoundExactly ==
    Searched =>
        ( (ret.status = "err" /\ ret.err.kind = "NoTokenFound")
          <=> ~HasShape(args.input_string, base_num(args.base)) )

\* The token the search matched: its start, its minutes field and the value
\* of that field in the base.
Matched == Searched /\ re_captures(args.input_string, args.base) > 0
MatchStart == re_captures(args.input_string, args.base)
MinutesField == SubSeq(args.input_string, MatchStart + 7, MatchStart + 9)
MinutesValue == RadixValue(MinutesField, base_num(args.base))

\* C7: every matched token whose minutes field decodes to 1440 or more
\* ends with the invalid-minutes error, naming the field and its value,
\* whatever its day of year; a token below 1440 never does.
C7_InvalidMinutesFirst ==
    Matched =>
        /\ MinutesValue >= MinutesPerDay =>
              ret = Failure(Err("InvalidMinutes", MinutesField, MinutesValue))
        /\ MinutesValue < MinutesPerDay =>
              ~(ret.status = "err" /\ ret.err.kind = "InvalidMinutes")

\* The year and the day of year written in the matched token; the
\* non-ASCII digit of the model is a three.
DecimalValueOf(c) == IF c = NdChar THEN 3 ELSE ValueOfDigit(c)
RECURSIVE DecimalValue(_)
DecimalValue(s) ==
    IF Len(s) = 0 THEN 0
    ELSE DecimalValue(SubSeq(s, 1, Len(s) - 1)) * 10 + DecimalValueOf(s[Len(s)])
TokenYear == 2000 + DecimalValue(SubSeq(args.input_string, MatchStart, MatchStart + 1))
TokenDoy == DecimalValue(SubSeq(args.input_string, MatchStart + 3, MatchStart + 5))

\* Year y has a day number doy: 1..365, and 366 in a leap year.
HasCalendarDate(y, doy) ==
    doy \in 1..365 \/ (doy = 366 /\ ((y % 4 = 0 /\ y % 100 # 0) \/ y % 400 = 0))

\* C8: for every matched token with minutes below 1440, the run ends with
\* the invalid-day-of-year error exactly when the token's day of year has
\* no calendar date in the year 2000 + YY.
C8_InvalidDoyExactly ==
    (Matched /\ MinutesValue < MinutesPerDay) =>
        ( (ret.status = "err" /\ ret.err.kind = "InvalidDayOfYear")
          <=> ~HasCalendarDate(TokenYear, TokenDoy) )

\* C9: a generate or expand run that fails has written nothing to standard
\* output; a run writes a line only when it succeeds, and then exactly one.
C9_NoOutputOnFailure ==
    op \in { "generate", "expand" } =>
        /\ ret.status # "ok" => (exit_code # 0 /\ stdout = <<>>)
        /\ ret.status = "ok" => (exit_code = 0 /\ Len(stdout) = 1)
        /\ stdout # <<>> => exit_code = 0

\* An expand run that fails late, on a local time that happens twice, with
\* nothing on standard output.
C9_Witness ==
    /\ op = "expand"
    /\ exit_code = 1
    /\ stderr = "AmbiguousLocalTime"
    /\ args.format = DefaultFormat
    /\ re_captures(args.input_string, args.base) > 0
    /\ stdout = <<>>

\* C10: no expand run ends with the invalid-digit error: the minutes field
\* the search captures holds only characters from_base_n accepts in the
\* base of the run.
C10_InvalidDigitUnreachable ==
    op = "expand" =>
        /\ ~(ret.status = "err" /\ ret.err.kind = "InvalidDigit")
        /\ stderr # "InvalidDigit"
        /\ (SearchRan /\ MatchStart > 0) => from_base_n(MinutesField, base_num(args.base)).ok

\* A token-shaped text whose minutes field holds '$': no token found.
C10_Witness ==
    /\ op = "expand"
    /\ args.base = "B36"
    /\ args.input_string = << "2", "5", "-", "1", "8", "1", "-", "1", "1", "$" >>
    /\ args.format = DefaultFormat
    /\ ret.status = "err"
    /\ ret.err.kind = "NoTokenFound"

====
